---- MODULE Spec2Model ----
(***************************************************************************)
(* Model of the Elixir repository management scripts:                      *)
(*   1_scan_repos.py, 2_filter_repos.py, action_check_uncommitted.py,      *)
(*   action_placeholder.py and the dispatcher run.py.                      *)
(* Paths and outputs are sequences of one-character strings, so that       *)
(* sorting, endswith, strip and Path.name are computed and not assumed.    *)
(***************************************************************************)
EXTENDS Integers, Sequences, FiniteSets, TLC

\* ------------------------------------------------------------------ bounds
\* Longest list drawn for a hand-off file's initial content.
MaxLen == 3
\* Longest captured stdout of the status query.
MaxOut == 2
\* Longest list drawn for repos_filtered.json before an action runs.
MaxRepos == 2

\* ------------------------------------------------------------ strings
DSPex == <<"D", "S", "P", "e", "x">>
MyDSPex == <<"M", "y">> \o DSPex
app == <<"a", "p", "p">>

\* Names a child of the parent directory can have.
Names == {DSPex, MyDSPex, app}

\* Path("..").resolve(): an absolute path, the same for every child.
parent_dir == <<"/", "w">>

\* Two invocations of the toolchain (the second one is used by SpecRace only).
Procs == {"A", "B"}

\* ord(): the code point, the order Python compares strings by.
ord(c) ==
    CASE c = "/" -> 47
      [] c = "D" -> 68
      [] c = "M" -> 77
      [] c = "P" -> 80
      [] c = "S" -> 83
      [] c = "a" -> 97
      [] c = "e" -> 101
      [] c = "p" -> 112
      [] c = "w" -> 119
      [] c = "x" -> 120
      [] c = "y" -> 121

\* str.__lt__: lexicographic by code point, a proper prefix is smaller.
RECURSIVE str_lt(_, _)
str_lt(a, b) ==
    IF b = <<>> THEN FALSE
    ELSE IF a = <<>> THEN TRUE
    ELSE IF Head(a) = Head(b) THEN str_lt(Tail(a), Tail(b))
    ELSE ord(Head(a)) < ord(Head(b))

\* str.endswith(suffix): compared from the last character backwards.
RECURSIVE endswith(_, _)
endswith(s, suffix) ==
    IF suffix = <<>> THEN TRUE
    ELSE IF s = <<>> THEN FALSE
    ELSE /\ s[Len(s)] = suffix[Len(suffix)]
         /\ endswith(SubSeq(s, 1, Len(s) - 1), SubSeq(suffix, 1, Len(suffix) - 1))

\* Path(repo).name: the characters after the last "/".
RECURSIVE path_name(_)
path_name(s) ==
    IF s = <<>> THEN <<>>
    ELSE IF s[Len(s)] = "/" THEN <<>>
    ELSE path_name(SubSeq(s, 1, Len(s) - 1)) \o <<s[Len(s)]>>

\* str(parent_dir / name)
PathOf(name) == parent_dir \o <<"/">> \o name

Paths == {PathOf(n) : n \in Names}

Range(s) == {s[i] : i \in 1..Len(s)}

\* list.sort(): ascending, by insertion.
RECURSIVE insort(_, _)
insort(x, s) ==
    IF s = <<>> THEN <<x>>
    ELSE IF str_lt(Head(s), x) THEN <<Head(s)>> \o insort(x, Tail(s))
    ELSE <<x>> \o s

RECURSIVE sort(_)
sort(s) == IF s = <<>> THEN <<>> ELSE insort(Head(s), sort(Tail(s)))

\* ----------------------------------------------------------- file system
Files == {"repos.json", "repos_exclude.json", "repos_filtered.json"}

Missing == [kind |-> "missing", repos |-> <<>>]
\* Not a JSON document: json.load raises JSONDecodeError.
Corrupt == [kind |-> "corrupt", repos |-> <<>>]
\* A JSON object without the "repos" field: data.get("repos", []) is [].
NoKey == [kind |-> "nokey", repos |-> <<>>]
\* json.dump({"repos": repos}, f, indent=2)
json_dump(repos_) == [kind |-> "list", repos |-> repos_]

\* All lists over S of length at most n.
ListsUpTo(S, n) == UNION {[1..k -> S] : k \in 0..n}

\* A child of the parent directory: absent, a plain file, or a directory
\* holding any of the two marker files.
Entries ==
    {[kind |-> "none", git |-> FALSE, mix |-> FALSE],
     [kind |-> "file", git |-> FALSE, mix |-> FALSE]}
    \cup {[kind |-> "dir", git |-> g, mix |-> m] : g \in BOOLEAN, m \in BOOLEAN}

VARIABLES
    dir,            \* the parent directory: name -> entry
    parentOK,       \* whether the parent directory can be listed
    fs,             \* the working directory: file name -> content
    fs0,            \* history: the files as they were before the first invocation
    prog,           \* per process: the program the shell started
    argv,           \* per process: the command given to run.py ("" if none)
    pc,             \* per process: position in the code
    rc,             \* per process: exit status of the script that just ended
    exit,           \* per process: exit status of the program (-1 while running)
    items,          \* scan_repos: children iterdir has not yielded yet
    elixir_repos,   \* scan_repos: elixir_repos, then main's repos
    main_repos,     \* filter_repos: main_repos
    exclude_repos,  \* filter_repos: exclude_repos
    filtered,       \* 2_filter_repos.main: filtered
    script,         \* run.py: the script run_script started last ("" if none)
    runs,           \* per process: commands the shell has started so far
    repos,          \* run_action: repos, the argument of the action's run
    idx,            \* run: position of the for loop in repos
    repos_with_changes, \* action_check_uncommitted.run: repos_with_changes
    lines,          \* the result lines printed by the action, in order
    checks,         \* history: the status queries started, in order
    lastOutcome,    \* history: what the last status query did
    report          \* the summary printed after the loop

vars == <<dir, parentOK, fs, fs0, prog, argv, pc, rc, exit, items,
          elixir_repos, main_repos, exclude_repos, filtered, script, runs,
          repos, idx, repos_with_changes, lines, checks, lastOutcome, report>>

envVars == <<dir, parentOK, fs0, prog, argv, script, runs>>
scanVars == <<items, elixir_repos>>
filterVars == <<main_repos, exclude_repos, filtered>>
actionVars == <<repos, idx, repos_with_changes, lines, checks, lastOutcome, report>>

Upd(f, p, v) == [f EXCEPT ![p] = v]

\* ------------------------------------------------------ 1_scan_repos.py
is_dir(n) == dir[n].kind = "dir"
is_git_repo(n) == dir[n].git
is_elixir_repo(n) == dir[n].mix

\* The test of lines 26-27.
scan_includes_or(n) == is_dir(n) /\ (is_git_repo(n) \/ is_elixir_repo(n))
scan_includes(n) == is_dir(n) /\ is_git_repo(n) /\ is_elixir_repo(n)

\* parent_dir.iterdir(): raises when the parent cannot be listed.
ScanStart(p) ==
    /\ pc[p] = "scan"
    /\ IF parentOK
       THEN /\ items' = Upd(items, p, {n \in Names : dir[n].kind # "none"})
            /\ elixir_repos' = Upd(elixir_repos, p, <<>>)
            /\ pc' = Upd(pc, p, "scan_iter")
            /\ rc' = rc
       ELSE /\ pc' = Upd(pc, p, "script_exit")
            /\ rc' = Upd(rc, p, 1)
            /\ UNCHANGED scanVars
    /\ UNCHANGED <<envVars, fs, exit, filterVars, actionVars>>

\* One iteration of the loop; iterdir yields the children in any order.
ScanItem(p) ==
    /\ pc[p] = "scan_iter"
    /\ \E n \in items[p] :
        /\ items' = Upd(items, p, items[p] \ {n})
        /\ elixir_repos' =
              IF scan_includes(n)
              THEN Upd(elixir_repos, p, Append(elixir_repos[p], PathOf(n)))
              ELSE elixir_repos
    /\ UNCHANGED <<envVars, fs, pc, rc, exit, filterVars, actionVars>>

\* elixir_repos.sort(); return elixir_repos
ScanSort(p) ==
    /\ pc[p] = "scan_iter"
    /\ items[p] = {}
    /\ elixir_repos' = Upd(elixir_repos, p, sort(elixir_repos[p]))
    /\ pc' = Upd(pc, p, "scan_write_main")
    /\ UNCHANGED <<envVars, fs, rc, exit, items, filterVars, actionVars>>

ScanWriteMain(p) ==
    /\ pc[p] = "scan_write_main"
    /\ fs' = [fs EXCEPT !["repos.json"] = json_dump(elixir_repos[p])]
    /\ pc' = Upd(pc, p, "scan_write_excl")
    /\ UNCHANGED <<envVars, rc, exit, scanVars, filterVars, actionVars>>

\* The exclude list built by comparing the last path segment with "DSPex".
excluded_repos_by_name(repos_) == SelectSeq(repos_, LAMBDA r : path_name(r) # DSPex)

\* [r for r in repos if not r.endswith("DSPex")]
excluded_repos(repos_) == SelectSeq(repos_, LAMBDA r : ~endswith(r, DSPex))

ScanWriteExclude(p) ==
    /\ pc[p] = "scan_write_excl"
    /\ fs' = [fs EXCEPT !["repos_exclude.json"] =
                 json_dump(excluded_repos(elixir_repos[p]))]
    /\ pc' = Upd(pc, p, "script_exit")
    /\ rc' = Upd(rc, p, 0)
    /\ UNCHANGED <<envVars, exit, scanVars, filterVars, actionVars>>

\* ---------------------------------------------------- 2_filter_repos.py
\* load_repos without its except clause: a missing file raises.
load_repos_noexcept(filename) ==
    IF fs[filename].kind \in {"missing", "corrupt"}
    THEN [raised |-> TRUE, repos |-> <<>>]
    ELSE [raised |-> FALSE, repos |-> fs[filename].repos]

\* load_repos: FileNotFoundError is caught and gives []; a JSONDecodeError
\* is not caught; a document without "repos" gives the default [].
load_repos(filename) ==
    IF fs[filename].kind = "missing" THEN [raised |-> FALSE, repos |-> <<>>]
    ELSE IF fs[filename].kind = "corrupt" THEN [raised |-> TRUE, repos |-> <<>>]
    ELSE IF fs[filename].kind = "nokey" THEN [raised |-> FALSE, repos |-> <<>>]
    ELSE [raised |-> FALSE, repos |-> fs[filename].repos]

\* x in s, for a list s: a scan from the front.
RECURSIVE list_contains(_, _)
list_contains(s, x) ==
    IF s = <<>> THEN FALSE
    ELSE Head(s) = x \/ list_contains(Tail(s), x)

\* s with its first occurrence of x removed.
RECURSIVE remove_first(_, _)
remove_first(s, x) ==
    IF s = <<>> THEN <<>>
    ELSE IF Head(s) = x THEN Tail(s)
    ELSE <<Head(s)>> \o remove_first(Tail(s), x)

\* A multiset difference: each exclude entry cancels one occurrence only.
RECURSIVE subtract_multiset(_, _)
subtract_multiset(main_, exclude_) ==
    IF main_ = <<>> THEN <<>>
    ELSE IF list_contains(exclude_, Head(main_))
         THEN subtract_multiset(Tail(main_), remove_first(exclude_, Head(main_)))
         ELSE <<Head(main_)>> \o subtract_multiset(Tail(main_), exclude_)

\* The subtraction with its test inverted: the entries that are excluded.
RECURSIVE subtract_inverted(_, _)
subtract_inverted(main_, exclude_) ==
    IF main_ = <<>> THEN <<>>
    ELSE (IF list_contains(exclude_, Head(main_)) THEN <<Head(main_)>> ELSE <<>>)
         \o subtract_inverted(Tail(main_), exclude_)

\* [r for r in main_repos if r not in exclude_repos]
RECURSIVE subtract(_, _)
subtract(main_, exclude_) ==
    IF main_ = <<>> THEN <<>>
    ELSE (IF list_contains(exclude_, Head(main_)) THEN <<>> ELSE <<Head(main_)>>)
         \o subtract(Tail(main_), exclude_)

\* main_repos = load_repos("repos.json")
FilterLoadMain(p) ==
    /\ pc[p] = "filter"
    /\ LET r == load_repos("repos.json") IN
       IF r.raised
       THEN /\ pc' = Upd(pc, p, "script_exit")
            /\ rc' = Upd(rc, p, 1)
            /\ UNCHANGED filterVars
       ELSE /\ main_repos' = Upd(main_repos, p, r.repos)
            /\ pc' = Upd(pc, p, "filter_excl")
            /\ UNCHANGED <<rc, exclude_repos, filtered>>
    /\ UNCHANGED <<envVars, fs, exit, scanVars, actionVars>>

\* exclude_repos = load_repos("repos_exclude.json"), then the subtraction.
FilterLoadExclude(p) ==
    /\ pc[p] = "filter_excl"
    /\ LET r == load_repos("repos_exclude.json") IN
       IF r.raised
       THEN /\ pc' = Upd(pc, p, "script_exit")
            /\ rc' = Upd(rc, p, 1)
            /\ UNCHANGED filterVars
       ELSE /\ exclude_repos' = Upd(exclude_repos, p, r.repos)
            /\ filtered' = Upd(filtered, p, subtract(main_repos[p], r.repos))
            /\ pc' = Upd(pc, p, "filter_write")
            /\ UNCHANGED <<rc, main_repos>>
    /\ UNCHANGED <<envVars, fs, exit, scanVars, actionVars>>

\* Save filtered list
FilterWrite(p) ==
    /\ pc[p] = "filter_write"
    /\ fs' = [fs EXCEPT !["repos_filtered.json"] = json_dump(filtered[p])]
    /\ pc' = Upd(pc, p, "script_exit")
    /\ rc' = Upd(rc, p, 0)
    /\ UNCHANGED <<envVars, exit, scanVars, filterVars, actionVars>>

\* A script the shell started itself ends the process with its status.
ScriptExit(p) ==
    /\ pc[p] = "script_exit"
    /\ prog[p] # "run.py"
    /\ pc' = Upd(pc, p, "done")
    /\ exit' = Upd(exit, p, rc[p])
    /\ UNCHANGED <<envVars, fs, rc, scanVars, filterVars, actionVars>>

\* ------------------------------------------- action_check_uncommitted.py
\* A JSON value that is not a string (an entry such as 5).
JInt == <<"<int>">>

\* Characters str.strip() removes, among those the captured output can hold.
Whitespace == {" ", "\n"}
OutChars == Whitespace \cup {"M"}

RECURSIVE lstrip(_)
lstrip(s) == IF s # <<>> /\ Head(s) \in Whitespace THEN lstrip(Tail(s)) ELSE s

RECURSIVE rstrip(_)
rstrip(s) ==
    IF s # <<>> /\ s[Len(s)] \in Whitespace
    THEN rstrip(SubSeq(s, 1, Len(s) - 1))
    ELSE s

\* str.strip()
strip(s) == rstrip(lstrip(s))

\* What subprocess.run(["git", "status", "--porcelain"], cwd=repo_path,
\* timeout=10) can do: return with captured output, or raise TimeoutExpired,
\* FileNotFoundError (no git executable) or NotADirectoryError /
\* FileNotFoundError (cwd is no directory).
GitOutcomes ==
    {[kind |-> "ran", stdout |-> o] : o \in ListsUpTo(OutChars, MaxOut)}
    \cup {[kind |-> k, stdout |-> <<>>] : k \in {"timeout", "nogit", "badpath"}}

NoOutcome == [kind |-> "none", stdout |-> <<>>]
NoReport == [printed |-> FALSE, repos |-> <<>>]

\* check_uncommitted comparing the raw output: blank output counts as a change.
check_uncommitted_nostrip(o) ==
    IF o.kind = "ran"
    THEN [raised |-> FALSE, value |-> o.stdout # <<>>]
    ELSE [raised |-> FALSE, value |-> FALSE]

\* check_uncommitted without its except clause.
check_uncommitted_noexcept(o) ==
    IF o.kind = "ran"
    THEN [raised |-> FALSE, value |-> strip(o.stdout) # <<>>]
    ELSE [raised |-> TRUE, value |-> FALSE]

\* check_uncommitted: result.stdout.strip() != "", and False on any Exception.
check_uncommitted(o) ==
    IF o.kind = "ran"
    THEN [raised |-> FALSE, value |-> strip(o.stdout) # <<>>]
    ELSE [raised |-> FALSE, value |-> FALSE]

\* One iteration of run's loop. Path(repo) raises TypeError for an entry that
\* is not a string; the exception leaves run and is caught in run_action.
CheckRepo(p) ==
    /\ pc[p] = "check_loop"
    /\ idx[p] <= Len(repos[p])
    /\ LET repo == repos[p][idx[p]] IN
       IF repo = JInt
       THEN /\ pc' = Upd(pc, p, "done")
            /\ exit' = Upd(exit, p, 0)
            /\ UNCHANGED actionVars
       ELSE \E o \in GitOutcomes :
            LET r == check_uncommitted(o) IN
            /\ checks' = Upd(checks, p, Append(checks[p], [repo |-> repo, kind |-> o.kind]))
            /\ lastOutcome' = Upd(lastOutcome, p, o)
            /\ IF r.raised
               THEN /\ pc' = Upd(pc, p, "done")
                    /\ exit' = Upd(exit, p, 0)
                    /\ UNCHANGED <<repos, idx, repos_with_changes, lines, report>>
               ELSE /\ repos_with_changes' =
                         IF r.value
                         THEN Upd(repos_with_changes, p, Append(repos_with_changes[p], repo))
                         ELSE repos_with_changes
                    /\ lines' = Upd(lines, p, Append(lines[p],
                                  [name |-> path_name(repo), dirty |-> r.value]))
                    /\ idx' = Upd(idx, p, idx[p] + 1)
                    /\ UNCHANGED <<pc, exit, repos, report>>
    /\ UNCHANGED <<envVars, fs, rc, scanVars, filterVars>>

\* After the loop: the list of repos with uncommitted work, or "All repos are
\* clean!"; run returns, run_action returns, main returns.
CheckSummary(p) ==
    /\ pc[p] = "check_loop"
    /\ idx[p] > Len(repos[p])
    /\ report' = Upd(report, p, [printed |-> TRUE, repos |-> repos_with_changes[p]])
    /\ pc' = Upd(pc, p, "done")
    /\ exit' = Upd(exit, p, 0)
    /\ UNCHANGED <<envVars, fs, rc, scanVars, filterVars, repos, idx,
                   repos_with_changes, lines, checks, lastOutcome>>

\* ------------------------------------------------- action_placeholder.py
\* One iteration of run's loop: print the name.
PlaceholderItem(p) ==
    /\ pc[p] = "placeholder_loop"
    /\ idx[p] <= Len(repos[p])
    /\ LET repo == repos[p][idx[p]] IN
       IF repo = JInt
       THEN /\ pc' = Upd(pc, p, "done")
            /\ exit' = Upd(exit, p, 0)
            /\ UNCHANGED actionVars
       ELSE /\ lines' = Upd(lines, p, Append(lines[p],
                          [name |-> path_name(repo), dirty |-> FALSE]))
            /\ idx' = Upd(idx, p, idx[p] + 1)
            /\ UNCHANGED <<pc, exit, repos, repos_with_changes, checks,
                           lastOutcome, report>>
    /\ UNCHANGED <<envVars, fs, rc, scanVars, filterVars>>

PlaceholderEnd(p) ==
    /\ pc[p] = "placeholder_loop"
    /\ idx[p] > Len(repos[p])
    /\ pc' = Upd(pc, p, "done")
    /\ exit' = Upd(exit, p, 0)
    /\ UNCHANGED <<envVars, fs, rc, scanVars, filterVars, actionVars>>

\* ----------------------------------------------------------------- run.py
\* run_script without the check of the script's status.
run_script_ignore_status(status) == [raised |-> FALSE, ok |-> TRUE]

\* run_script without its except clause: CalledProcessError leaves main.
run_script_noexcept(status) == [raised |-> status # 0, ok |-> TRUE]

\* run_script: True, or False when the script's exit status is not zero.
run_script(status) == [raised |-> FALSE, ok |-> status = 0]

\* main: the dispatch on sys.argv.
RunMain(p) ==
    /\ pc[p] = "main"
    /\ CASE argv[p] = "" ->
              /\ pc' = Upd(pc, p, "done")
              /\ exit' = Upd(exit, p, 0)
              /\ script' = script
         [] argv[p] \in {"scan", "setup"} ->
              /\ pc' = Upd(pc, p, "scan")
              /\ script' = Upd(script, p, "1_scan_repos.py")
              /\ exit' = exit
         [] argv[p] = "filter" ->
              /\ pc' = Upd(pc, p, "filter")
              /\ script' = Upd(script, p, "2_filter_repos.py")
              /\ exit' = exit
         [] argv[p] \in {"uncommitted", "placeholder"} ->
              /\ pc' = Upd(pc, p, "action_load")
              /\ script' = script
              /\ exit' = exit
         [] OTHER ->
              /\ pc' = Upd(pc, p, "done")
              /\ exit' = Upd(exit, p, 1)
              /\ script' = script
    /\ UNCHANGED <<dir, parentOK, fs0, prog, argv, runs, fs, rc,
                   scanVars, filterVars, actionVars>>

\* run_script returns to main; setup goes on to the filter script only after
\* a scan that run_script reported as successful.
RunScriptReturn(p) ==
    /\ pc[p] = "script_exit"
    /\ prog[p] = "run.py"
    /\ LET r == run_script(rc[p]) IN
       IF r.raised
       THEN /\ pc' = Upd(pc, p, "done")
            /\ exit' = Upd(exit, p, 1)
            /\ script' = script
       ELSE IF argv[p] = "setup" /\ script[p] = "1_scan_repos.py" /\ r.ok
       THEN /\ pc' = Upd(pc, p, "filter")
            /\ script' = Upd(script, p, "2_filter_repos.py")
            /\ exit' = exit
       ELSE /\ pc' = Upd(pc, p, "done")
            /\ exit' = Upd(exit, p, 0)
            /\ script' = script
    /\ UNCHANGED <<dir, parentOK, fs0, prog, argv, runs, fs, rc,
                   scanVars, filterVars, actionVars>>

\* run_action up to the call of module.run: a missing repos_filtered.json
\* (FileNotFoundError) and a malformed one (except Exception) are reported
\* and run_action returns False; main returns.
RunActionLoad(p) ==
    /\ pc[p] = "action_load"
    /\ LET f == fs["repos_filtered.json"] IN
       IF f.kind \in {"missing", "corrupt"}
       THEN /\ pc' = Upd(pc, p, "done")
            /\ exit' = Upd(exit, p, 0)
            /\ UNCHANGED actionVars
       ELSE /\ repos' = Upd(repos, p, IF f.kind = "nokey" THEN <<>> ELSE f.repos)
            /\ idx' = Upd(idx, p, 1)
            /\ repos_with_changes' = Upd(repos_with_changes, p, <<>>)
            /\ pc' = Upd(pc, p, IF argv[p] = "uncommitted"
                                THEN "check_loop" ELSE "placeholder_loop")
            /\ UNCHANGED <<exit, lines, checks, lastOutcome, report>>
    /\ UNCHANGED <<envVars, fs, rc, scanVars, filterVars>>

\* ------------------------------------------------------- specifications
Locals0 ==
    /\ rc = [p \in Procs |-> -1]
    /\ exit = [p \in Procs |-> -1]
    /\ items = [p \in Procs |-> {}]
    /\ elixir_repos = [p \in Procs |-> <<>>]
    /\ main_repos = [p \in Procs |-> <<>>]
    /\ exclude_repos = [p \in Procs |-> <<>>]
    /\ filtered = [p \in Procs |-> <<>>]
    /\ runs = [p \in Procs |-> IF pc[p] = "idle" THEN 0 ELSE 1]
    /\ repos = [p \in Procs |-> <<>>]
    /\ idx = [p \in Procs |-> 1]
    /\ repos_with_changes = [p \in Procs |-> <<>>]
    /\ lines = [p \in Procs |-> <<>>]
    /\ checks = [p \in Procs |-> <<>>]
    /\ lastOutcome = [p \in Procs |-> NoOutcome]
    /\ report = [p \in Procs |-> NoReport]

\* python 1_scan_repos.py, on any parent directory.
InitScan ==
    /\ dir \in [Names -> Entries]
    /\ parentOK \in BOOLEAN
    /\ fs = [f \in Files |-> Missing]
    /\ fs0 = fs
    /\ prog = [p \in Procs |-> IF p = "A" THEN "1_scan_repos.py" ELSE ""]
    /\ argv = [p \in Procs |-> ""]
    /\ script = prog
    /\ pc = [p \in Procs |-> IF p = "A" THEN "scan" ELSE "idle"]
    /\ Locals0

NextScan ==
    \/ ScanStart("A")
    \/ ScanItem("A")
    \/ ScanSort("A")
    \/ ScanWriteMain("A")
    \/ ScanWriteExclude("A")
    \/ ScriptExit("A")

SpecScan == InitScan /\ [][NextScan]_vars

\* What a hand-off file can hold before an invocation.
FileContents ==
    {Missing, Corrupt, NoKey} \cup {json_dump(l) : l \in ListsUpTo(Paths, MaxLen)}

\* python 2_filter_repos.py, on any two input files.
InitFilter ==
    /\ dir = [n \in Names |-> [kind |-> "none", git |-> FALSE, mix |-> FALSE]]
    /\ parentOK = TRUE
    /\ \E m \in FileContents, e \in FileContents :
          fs = [f \in Files |-> IF f = "repos.json" THEN m
                                ELSE IF f = "repos_exclude.json" THEN e
                                ELSE Missing]
    /\ fs0 = fs
    /\ prog = [p \in Procs |-> IF p = "A" THEN "2_filter_repos.py" ELSE ""]
    /\ argv = [p \in Procs |-> ""]
    /\ script = prog
    /\ pc = [p \in Procs |-> IF p = "A" THEN "filter" ELSE "idle"]
    /\ Locals0

NextFilter ==
    \/ FilterLoadMain("A")
    \/ FilterLoadExclude("A")
    \/ FilterWrite("A")
    \/ ScriptExit("A")

SpecFilter == InitFilter /\ [][NextFilter]_vars

\* What repos_filtered.json can hold before an action runs.
ActionInputs ==
    {Missing, Corrupt, NoKey}
    \cup {json_dump(l) : l \in ListsUpTo(Paths \cup {JInt}, MaxRepos)}

\* python run.py uncommitted | placeholder, on any filtered list.
InitAction ==
    /\ dir = [n \in Names |-> [kind |-> "none", git |-> FALSE, mix |-> FALSE]]
    /\ parentOK = TRUE
    /\ \E c \in ActionInputs :
          fs = [f \in Files |-> IF f = "repos_filtered.json" THEN c ELSE Missing]
    /\ fs0 = fs
    /\ prog = [p \in Procs |-> IF p = "A" THEN "run.py" ELSE ""]
    /\ argv \in [Procs -> {"", "uncommitted", "placeholder"}]
    /\ argv["A"] # "" /\ argv["B"] = ""
    /\ script = [p \in Procs |-> ""]
    /\ pc = [p \in Procs |-> IF p = "A" THEN "main" ELSE "idle"]
    /\ Locals0

NextAction ==
    \/ RunMain("A")
    \/ RunActionLoad("A")
    \/ CheckRepo("A")
    \/ CheckSummary("A")
    \/ PlaceholderItem("A")
    \/ PlaceholderEnd("A")

SpecAction == InitAction /\ [][NextAction]_vars

Commands == {"", "scan", "filter", "setup", "uncommitted", "placeholder", "bogus"}

\* Earlier contents of the input files and of the filtered list, for run.py.
OldInputs == {Missing, Corrupt, json_dump(<<PathOf(app)>>)}
OldFiltered ==
    {Missing, Corrupt, json_dump(<<>>), json_dump(<<PathOf(app)>>), json_dump(<<JInt>>)}

\* python run.py [command], on any parent directory and earlier files.
InitRun ==
    /\ dir \in [Names -> Entries]
    /\ parentOK \in BOOLEAN
    /\ \E m \in OldInputs, e \in OldInputs, c \in OldFiltered :
          fs = [f \in Files |-> IF f = "repos.json" THEN m
                                ELSE IF f = "repos_exclude.json" THEN e
                                ELSE c]
    /\ fs0 = fs
    /\ prog = [p \in Procs |-> IF p = "A" THEN "run.py" ELSE ""]
    /\ \E c \in Commands : argv = [p \in Procs |-> IF p = "A" THEN c ELSE ""]
    /\ script = [p \in Procs |-> ""]
    /\ pc = [p \in Procs |-> IF p = "A" THEN "main" ELSE "idle"]
    /\ Locals0

NextRun ==
    \/ RunMain("A")
    \/ RunScriptReturn("A")
    \/ ScanStart("A")
    \/ ScanItem("A")
    \/ ScanSort("A")
    \/ ScanWriteMain("A")
    \/ ScanWriteExclude("A")
    \/ FilterLoadMain("A")
    \/ FilterLoadExclude("A")
    \/ FilterWrite("A")
    \/ RunActionLoad("A")
    \/ CheckRepo("A")
    \/ CheckSummary("A")
    \/ PlaceholderItem("A")
    \/ PlaceholderEnd("A")

SpecRun == InitRun /\ [][NextRun]_vars

\* The shell starts the next command once the previous one has ended: an
\* action, after setup.
Invoke(p) ==
    /\ pc[p] = "done"
    /\ runs[p] = 1
    /\ runs' = Upd(runs, p, 2)
    /\ \E c \in {"uncommitted", "placeholder"} : argv' = Upd(argv, p, c)
    /\ pc' = Upd(pc, p, "main")
    /\ exit' = Upd(exit, p, -1)
    /\ script' = Upd(script, p, "")
    /\ UNCHANGED <<dir, parentOK, fs0, prog, fs, rc, scanVars, filterVars, actionVars>>

\* python run.py setup, then python run.py uncommitted | placeholder.
InitPipeline ==
    /\ dir \in [Names -> Entries]
    /\ parentOK \in BOOLEAN
    /\ \E m \in OldInputs, c \in OldFiltered :
          fs = [f \in Files |-> IF f = "repos_filtered.json" THEN c ELSE m]
    /\ fs0 = fs
    /\ prog = [p \in Procs |-> IF p = "A" THEN "run.py" ELSE ""]
    /\ argv = [p \in Procs |-> IF p = "A" THEN "setup" ELSE ""]
    /\ script = [p \in Procs |-> ""]
    /\ pc = [p \in Procs |-> IF p = "A" THEN "main" ELSE "idle"]
    /\ Locals0

NextPipeline ==
    \/ NextRun
    \/ Invoke("A")

SpecPipeline == InitPipeline /\ [][NextPipeline]_vars

\* Earlier contents of repos.json and repos_exclude.json, for the race.
RaceInputs ==
    {Missing, json_dump(<<>>), json_dump(<<PathOf(app)>>),
     json_dump(<<PathOf(DSPex), PathOf(app)>>)}

\* python 1_scan_repos.py and python 2_filter_repos.py started together in
\* the same working directory.
InitRace ==
    /\ dir \in [Names -> Entries]
    /\ parentOK = TRUE
    /\ \E m \in RaceInputs, e \in RaceInputs :
          fs = [f \in Files |-> IF f = "repos.json" THEN m
                                ELSE IF f = "repos_exclude.json" THEN e
                                ELSE Missing]
    /\ fs0 = fs
    /\ prog = [p \in Procs |-> IF p = "A" THEN "1_scan_repos.py" ELSE "2_filter_repos.py"]
    /\ argv = [p \in Procs |-> ""]
    /\ script = prog
    /\ pc = [p \in Procs |-> IF p = "A" THEN "scan" ELSE "filter"]
    /\ Locals0

NextRace ==
    \/ ScanStart("A")
    \/ ScanItem("A")
    \/ ScanSort("A")
    \/ ScanWriteMain("A")
    \/ ScanWriteExclude("A")
    \/ FilterLoadMain("B")
    \/ FilterLoadExclude("B")
    \/ FilterWrite("B")
    \/ \E p \in Procs : ScriptExit(p)

SpecRace == InitRace /\ [][NextRace]_vars

\* ------------------------------------------------------------- claims
Count(s, x) == Cardinality({i \in 1..Len(s) : s[i] = x})

\* a can be obtained from b by deleting entries, the rest keeping its order.
RECURSIVE IsSubseq(_, _)
IsSubseq(a, b) ==
    IF a = <<>> THEN TRUE
    ELSE IF b = <<>> THEN FALSE
    ELSE IF Head(a) = Head(b) THEN IsSubseq(Tail(a), Tail(b))
    ELSE IsSubseq(a, Tail(b))

IsList(f) == fs[f].kind = "list"

FilterDone == pc["A"] = "done" /\ prog["A"] = "2_filter_repos.py"

\* C1: for lists main (repos.json) and exclude (repos_exclude.json) the filter
\* step's result is main with every occurrence of each member of exclude
\* deleted and every occurrence of each other entry kept, in main's order;
\* nothing absent from main is produced.
C1_FilterIsOrderedDifference ==
    (FilterDone /\ IsList("repos.json") /\ IsList("repos_exclude.json")) =>
        LET main_ == fs["repos.json"].repos
            exclude_ == fs["repos_exclude.json"].repos
            out == fs["repos_filtered.json"]
        IN /\ exit["A"] = 0
           /\ out.kind = "list"
           /\ IsSubseq(out.repos, main_)
           /\ \A x \in Paths :
                Count(out.repos, x) =
                    IF x \in Range(exclude_) THEN 0 ELSE Count(main_, x)

\* C1 witness: main = [x, y, x] with x excluded once gives [y].
C1_Witness ==
    /\ FilterDone /\ IsList("repos.json") /\ IsList("repos_exclude.json")
    /\ \E x, y \in Paths :
        /\ x # y
        /\ fs["repos.json"].repos = <<x, y, x>>
        /\ fs["repos_exclude.json"].repos = <<x>>
        /\ fs["repos_filtered.json"].repos = <<y>>

AbsentOrList(f) == fs[f].kind \in {"missing", "list"}

\* C2 as stated: if either input file is absent, the filter step does not
\* raise and its result is the empty list (the other file absent or a list).
C2_MissingInputGivesEmpty ==
    (/\ FilterDone
     /\ AbsentOrList("repos.json") /\ AbsentOrList("repos_exclude.json")
     /\ (~IsList("repos.json") \/ ~IsList("repos_exclude.json"))) =>
        /\ exit["A"] = 0
        /\ fs["repos_filtered.json"] = json_dump(<<>>)

\* C2 amended: with repos.json absent the step does not raise and its result
\* is the empty list; with only repos_exclude.json absent it does not raise
\* and its result is the whole list of repos.json.
C2_MissingInputAmended ==
    (FilterDone /\ AbsentOrList("repos.json") /\ AbsentOrList("repos_exclude.json")) =>
        /\ ~IsList("repos.json") =>
              exit["A"] = 0 /\ fs["repos_filtered.json"] = json_dump(<<>>)
        /\ (IsList("repos.json") /\ ~IsList("repos_exclude.json")) =>
              exit["A"] = 0 /\ fs["repos_filtered.json"] = fs["repos.json"]

\* C2 witness: only repos_exclude.json is absent and the result is the
\* non-empty list of repos.json.
C2_Witness ==
    /\ FilterDone
    /\ IsList("repos.json") /\ fs["repos_exclude.json"] = Missing
    /\ fs["repos.json"].repos # <<>>
    /\ fs["repos_filtered.json"] = fs["repos.json"]

ScanDone == pc["A"] = "done" /\ prog["A"] = "1_scan_repos.py" /\ exit["A"] = 0

\* C3 as stated: the exclude list the scanner writes is the full list with
\* exactly the entries removed whose last path segment equals "DSPex".
C3_ExcludeDropsExactlyNamedEntry ==
    ScanDone =>
        fs["repos_exclude.json"].repos =
            SelectSeq(fs["repos.json"].repos, LAMBDA r : path_name(r) # DSPex)

ScanReturned == pc["A"] = "scan_write_main" /\ prog["A"] = "1_scan_repos.py"

\* C4: scan_repos returns the path of a child iff the child is a directory
\* holding both .git and mix.exs, in strictly ascending order.
C4_ScanIffBothMarkers ==
    ScanReturned =>
        LET r == elixir_repos["A"] IN
        /\ \A n \in Names :
            PathOf(n) \in Range(r) <=>
                (dir[n].kind = "dir" /\ dir[n].git /\ dir[n].mix)
        /\ Range(r) \subseteq Paths
        /\ \A i, j \in 1..Len(r) : i < j => str_lt(r[i], r[j])

\* C4 witness: two children are returned and a directory with only one
\* marker is not.
C4_Witness ==
    /\ ScanReturned
    /\ Len(elixir_repos["A"]) = 2
    /\ \E n \in Names : dir[n].kind = "dir" /\ dir[n].git # dir[n].mix

CheckRun == argv["A"] = "uncommitted" /\ prog["A"] = "run.py"

NonBlank(out) == \E i \in 1..Len(out) : out[i] \notin {" ", "\n"}

\* C5: check_uncommitted returns dirty when the status query ran and printed
\* non-blank output, clean when it ran and printed none, and clean, without
\* raising, when the query could not run (timeout, no git, invalid path).
C5_CheckUncommittedVerdict ==
    (CheckRun /\ checks["A"] # <<>>) =>
        LET o == lastOutcome["A"]
            n == Len(checks["A"])
        IN /\ Len(lines["A"]) = n
           /\ lines["A"][n].dirty <=> (o.kind = "ran" /\ NonBlank(o.stdout))

\* C5 witness: a query that ran with a change reported dirty, then a query
\* that could not run (no git executable) reported clean.
C5_Witness ==
    /\ CheckRun
    /\ Len(lines["A"]) = 2
    /\ checks["A"][1].kind = "ran" /\ lines["A"][1].dirty
    /\ lastOutcome["A"].kind = "nogit" /\ ~lines["A"][2].dirty

\* The entries of rs whose result line, from position i on, says dirty.
RECURSIVE DirtyFrom(_, _, _)
DirtyFrom(rs, ls, i) ==
    IF i > Len(ls) THEN <<>>
    ELSE (IF ls[i].dirty THEN <<rs[i]>> ELSE <<>>) \o DirtyFrom(rs, ls, i + 1)

\* run was called with a list of paths.
RunOnPaths ==
    /\ CheckRun
    /\ pc["A"] \in {"check_loop", "done"}
    /\ fs["repos_filtered.json"].kind \in {"list", "nokey"}
    /\ Range(fs["repos_filtered.json"].repos) \subseteq Paths

KnownCommands == {"scan", "filter", "setup", "uncommitted", "placeholder"}

\* C6: run.py exits non-zero iff its command is none of the five known ones;
\* with no argument, and with a known command whatever happens in it, the
\* exit status is zero.
C6_NonZeroExitIffUnknownCommand ==
    (prog["A"] = "run.py" /\ pc["A"] = "done") =>
        /\ exit["A"] \in {0, 1}
        /\ exit["A"] # 0 <=> (argv["A"] # "" /\ argv["A"] \notin KnownCommands)

\* C6 witness: setup whose scan script failed still exits zero.
C6_Witness ==
    /\ prog["A"] = "run.py" /\ pc["A"] = "done"
    /\ argv["A"] = "setup" /\ rc["A"] = 1 /\ exit["A"] = 0

SetupRun == prog["A"] = "run.py" /\ argv["A"] = "setup" /\ runs["A"] = 1

\* C8: in setup the filter script is started only after a scan that ran to
\* completion and succeeded, and then reads the two files this scan wrote;
\* after a failed scan the filter is never started and repos_filtered.json
\* is as it was before.
C8_SetupFilterOnlyAfterScan ==
    SetupRun =>
        /\ script["A"] = "2_filter_repos.py" =>
              /\ parentOK /\ items["A"] = {}
              /\ fs["repos.json"] = json_dump(elixir_repos["A"])
              /\ fs["repos_exclude.json"].kind = "list"
              /\ IsSubseq(fs["repos_exclude.json"].repos, elixir_repos["A"])
        /\ pc["A"] \in {"filter_excl", "filter_write"} =>
              main_repos["A"] = elixir_repos["A"]
        /\ pc["A"] = "filter_write" =>
              exclude_repos["A"] = fs["repos_exclude.json"].repos
        /\ (pc["A"] = "done" /\ ~parentOK) =>
              /\ script["A"] = "1_scan_repos.py"
              /\ fs["repos_filtered.json"] = fs0["repos_filtered.json"]

\* C8 witness: setup ended after a failed scan and the earlier filtered list
\* is still there.
C8_Witness ==
    /\ SetupRun /\ pc["A"] = "done" /\ ~parentOK
    /\ fs0["repos_filtered.json"] = json_dump(<<PathOf(app)>>)
    /\ fs["repos_filtered.json"] = json_dump(<<PathOf(app)>>)

\* The last five characters are D, S, P, e, x.
EndsDSPex(r) == Len(r) >= 5 /\ SubSeq(r, Len(r) - 4, Len(r)) = <<"D", "S", "P", "e", "x">>

Scanned(n) == dir[n].kind = "dir" /\ dir[n].git /\ dir[n].mix

Minus(m, e) == SelectSeq(m, LAMBDA r : r \notin Range(e))

\* What load_repos gives for a file as it was before the two runs.
Old(f) == IF fs0[f].kind = "list" THEN fs0[f].repos ELSE <<>>

BothDone ==
    /\ prog["A"] = "1_scan_repos.py" /\ prog["B"] = "2_filter_repos.py"
    /\ pc["A"] = "done" /\ pc["B"] = "done"
    /\ exit["A"] = 0 /\ exit["B"] = 0

\* The filtered list of the two sequential orders.
ScanThenFilter == Minus(fs["repos.json"].repos, fs["repos_exclude.json"].repos)
FilterThenScan == Minus(Old("repos.json"), Old("repos_exclude.json"))

\* C10: a scan run and a filter run in the same directory race: the filter
\* can write a list that neither sequential order gives, and it does so only
\* when its two reads straddle the scan's two writes (the new repos.json with
\* the old repos_exclude.json, or the old repos.json with the new exclude).
C10_AnomalyOnlyFromStraddlingReads ==
    (BothDone /\ fs["repos_filtered.json"].repos \notin {ScanThenFilter, FilterThenScan}) =>
        \/ /\ main_repos["B"] = fs["repos.json"].repos
           /\ exclude_repos["B"] = Old("repos_exclude.json")
        \/ /\ main_repos["B"] = Old("repos.json")
           /\ exclude_repos["B"] = fs["repos_exclude.json"].repos

\* C10 witness: the filter read the repos.json of the new scan and the
\* repos_exclude.json from before it, and wrote a list that differs from the
\* result of both sequential orders.
C10_Witness ==
    /\ BothDone
    /\ main_repos["B"] = fs["repos.json"].repos
    /\ main_repos["B"] # Old("repos.json")
    /\ exclude_repos["B"] = Old("repos_exclude.json")
    /\ exclude_repos["B"] # fs["repos_exclude.json"].repos
    /\ fs["repos_filtered.json"] = json_dump(Minus(main_repos["B"], exclude_repos["B"]))
    /\ fs["repos_filtered.json"].repos # ScanThenFilter
    /\ fs["repos_filtered.json"].repos # FilterThenScan

====
